---- MODULE Spec2Model ----
(***************************************************************************)
(* A model of src/bitmap.c: the pixel canvas (newBitmap, putPixel,         *)
(* freeBitmap), the circle rasterizer (circleBres, drawCircle), the 24 bit *)
(* bitmap encoder (writeBitmapData, saveBitmap) and the driver (main).     *)
(*                                                                         *)
(* C's int arithmetic is modelled as it is computed: division and          *)
(* remainder truncate toward zero, the bitwise or of PIXCOLOR works on the *)
(* 32 bit two's complement representation, and the bytes the encoder picks *)
(* out of a pixel are those of a little-endian int.                        *)
(***************************************************************************)
EXTENDS Integers, Sequences, FiniteSets, TLC

\* ------------------------------------------------------------------ bounds

\* The largest image width and height the driver is run with (main: 1024).
MaxDim == 7
\* The largest radius an API-level caller passes to circleBres.
MaxRadius == 3
\* How many circles an API-level caller draws on one canvas.
MaxCircles == 2
\* The largest local coordinate drawCircle's colour rule is applied to.
MaxLocal == 256

\* ------------------------------------------------------- program constants

BITCOUNT == 24

Dims == (-1)..MaxDim
Radii == (-1)..MaxRadius
\* What an uninitialised byte of the stack may hold (three of the 256 values).
GarbageBytes == {0, 170, 255}

\* ---------------------------------------------------------- C arithmetic

\* a / b of C for b > 0: truncation toward zero.
CDiv(a, b) == IF a >= 0 THEN a \div b ELSE -((-a) \div b)
\* a % b of C for b > 0: the sign of the dividend.
CMod(a, b) == a - b * CDiv(a, b)

\* The low 31 bits of a 32 bit int, as a natural number.
Low31(v) == IF v >= 0 THEN v ELSE (v + 2147483647) + 1
\* Byte i (0 the lowest address) of a little-endian 32 bit int.
ByteOf(v, i) ==
  CASE i = 0 -> Low31(v) % 256
    [] i = 1 -> (Low31(v) \div 256) % 256
    [] i = 2 -> (Low31(v) \div 65536) % 256
    [] OTHER -> (Low31(v) \div 16777216) + (IF v < 0 THEN 128 ELSE 0)
\* The 32 bit int whose little-endian bytes are b0..b3.
FromBytes(b0, b1, b2, b3) ==
  LET low == b0 + 256 * b1 + 65536 * b2 + 16777216 * (b3 % 128)
  IN  IF b3 >= 128 THEN (low - 2147483647) - 1 ELSE low

RECURSIVE OrBits(_, _, _)
\* The bitwise or of the low n bits of a and b.
OrBits(a, b, n) ==
  IF n = 0 THEN 0
  ELSE (IF a % 2 = 1 \/ b % 2 = 1 THEN 1 ELSE 0)
       + 2 * OrBits(a \div 2, b \div 2, n - 1)
\* a | b on 32 bit ints.
Or32(a, b) ==
  FromBytes(OrBits(ByteOf(a, 0), ByteOf(b, 0), 8),
            OrBits(ByteOf(a, 1), ByteOf(b, 1), 8),
            OrBits(ByteOf(a, 2), ByteOf(b, 2), 8),
            OrBits(ByteOf(a, 3), ByteOf(b, 3), 8))

LE32(v) == <<ByteOf(v, 0), ByteOf(v, 1), ByteOf(v, 2), ByteOf(v, 3)>>
LE16(v) == <<ByteOf(v, 0), ByteOf(v, 1)>>

\* ------------------------------------------------------------- the macros

\* A faulty variant: three bytes a pixel, no rounding up to the 32 bit boundary.
BytesPerLineUnpadded(width, bits) == CDiv(width * bits, 8)
BMP_BYTES_PER_LINE(width, bits) == CDiv(width * bits + 31, 32) * 4

GET_PIXEL_INDEX(px, py, width) == px + py * width

\* g << 8 and b << 16 multiply; gcc and clang do so for a negative g too.
PIXCOLOR(red, green, blue) == Or32(Or32(red, green * 256), blue * 65536)

\* ------------------------------------------------------------------ state

VARIABLES
  pc,          \* where the driver is
  header,      \* bitmap->header
  cells,       \* bitmap->pixelBuffer: [0..n-1 -> int], <<>> when there is none
  bitmap,      \* "none", "live" or "freed": the struct bitmapData of main
  radiusStart, \* main's radiusStart
  prgmStatus,  \* main's prgmStatus
  status,      \* the process exit status: "running", or what main returns
  xc, yc, r,   \* circleBres's arguments
  x, y, d,     \* circleBres's locals
  colour,      \* the red, green, blue drawCircle last computed
  lineBuffer,  \* writeBitmapData's row buffer
  row,         \* writeBitmapData's y
  file,        \* the sink: "closed" or "open"
  out,         \* the bytes the sink took
  sinkBad,     \* an fwrite failed
  asked,       \* history: how many bytes fwrite was asked to write
  lastPut,     \* history: the channels putPixel was last given, per cell index
  callWrites,  \* history: the coordinates this circleBres call gave putPixel
  callOob,     \* history: this call gave putPixel a coordinate off the canvas
  iters,       \* history: iterations of this call's while loop
  passes,      \* history: drawCircle calls of this call
  circles,     \* history: circleBres calls on this canvas
  ub,          \* history: a putPixel wrote outside the pixel buffer
  everOob      \* history: a putPixel got a coordinate off this canvas

vars == <<pc, header, cells, bitmap, radiusStart, prgmStatus, status, xc, yc,
          r, x, y, d, colour, lineBuffer, row, file, out, sinkBad, asked,
          lastPut, callWrites, callOob, iters, passes, circles, ub, everOob>>

bresVars == <<xc, yc, r, x, y, d>>
encVars == <<lineBuffer, row, file, out, sinkBad, asked>>
callHist == <<callWrites, callOob, iters, passes>>

\* calloc's struct bitmapData: every field zero.
ZeroHeader ==
  [bfType |-> <<0, 0>>, fileSize |-> 0, reserved |-> 0, imageOffset |-> 0,
   headerSize |-> 0, width |-> 0, height |-> 0, planes |-> 0, bitCount |-> 0,
   compression |-> 0, imageSize |-> 0, xPixelsPerMeter |-> 0,
   yPixelsPerMeter |-> 0, colorsUsed |-> 0, colorsImportant |-> 0]

\* The packed struct as fwrite sees it: the fields in order, no padding.
HeaderBytes(h) ==
  h.bfType \o LE32(h.fileSize) \o LE32(h.reserved) \o LE32(h.imageOffset)
  \o LE32(h.headerSize) \o LE32(h.width) \o LE32(h.height) \o LE16(h.planes)
  \o LE16(h.bitCount) \o LE32(h.compression) \o LE32(h.imageSize)
  \o LE32(h.xPixelsPerMeter) \o LE32(h.yPixelsPerMeter) \o LE32(h.colorsUsed)
  \o LE32(h.colorsImportant)

\* sizeof(struct bitmapHeader)
SizeofHeader == Len(HeaderBytes(ZeroHeader))

Init ==
  /\ pc = "main_start"
  /\ header = ZeroHeader
  /\ cells = <<>>
  /\ bitmap = "none"
  /\ radiusStart = 0
  /\ prgmStatus = 0
  /\ status = "running"
  /\ xc = 0 /\ yc = 0 /\ r = 0
  /\ x = 0 /\ y = 0 /\ d = 0
  /\ colour = <<0, 0, 0>>
  /\ lineBuffer = <<>>
  /\ row = 0
  /\ file = "closed"
  /\ out = <<>>
  /\ sinkBad = FALSE
  /\ asked = 0
  /\ lastPut = <<>>
  /\ callWrites = {}
  /\ callOob = FALSE
  /\ iters = 0
  /\ passes = 0
  /\ circles = 0
  /\ ub = FALSE
  /\ everOob = FALSE

\* ----------------------------------------------------------------- canvas

\* newBitmap(width, height), called from the "main_start" line; rs is what the
\* caller sets radiusStart to when a canvas comes back.  calloc may fail for
\* any size, fails for a negative int count (a size_t beyond what can be
\* allocated) and may return NULL or an empty block for a count of 0.
newBitmap(width, height, rs) ==
  /\ pc = "main_start"
  /\ LET numberOfPixels == width * height
     IN \E got \in (IF numberOfPixels < 0 THEN {FALSE} ELSE BOOLEAN) :
          IF got
          THEN /\ bitmap' = "live"
               /\ header' = [ZeroHeader EXCEPT !.width = width,
                                               !.height = height]
               /\ cells' = [i \in 0..(numberOfPixels - 1) |-> 0]
               /\ lastPut' = [i \in 0..(numberOfPixels - 1) |-> <<0, 0, 0>>]
               /\ radiusStart' = rs
               /\ pc' = "main_loop"
               /\ UNCHANGED status
          ELSE /\ pc' = "exit"
               /\ status' = -1
               /\ UNCHANGED <<bitmap, header, cells, lastPut, radiusStart>>
  /\ UNCHANGED <<prgmStatus, bresVars, colour, encVars, callHist, circles, ub,
                 everOob>>

\* putPixel on the pixel buffer: a store at GET_PIXEL_INDEX, with no check.  A
\* store outside the buffer leaves the buffer as it is.
putPixel(buf, width, px, py, value) ==
  LET i == GET_PIXEL_INDEX(px, py, width)
  IN  IF i \in DOMAIN buf THEN [buf EXCEPT ![i] = value] ELSE buf

InCanvas(px, py) ==
  /\ 0 <= px /\ px < header.width
  /\ 0 <= py /\ py < header.height

\* -------------------------------------------------------------- rasterizer

\* A faulty variant: the sixth point repeats the fifth's xc+y.
EightPointsTypo(cx, cy, lx, ly) ==
  << <<cx + lx, cy + ly>>, <<cx - lx, cy + ly>>,
     <<cx + lx, cy - ly>>, <<cx - lx, cy - ly>>,
     <<cx + ly, cy + lx>>, <<cx + ly, cy + lx>>,
     <<cx + ly, cy - lx>>, <<cx - ly, cy - lx>> >>
\* The eight points drawCircle gives putPixel, in its order.
EightPoints(cx, cy, lx, ly) ==
  << <<cx + lx, cy + ly>>, <<cx - lx, cy + ly>>,
     <<cx + lx, cy - ly>>, <<cx - lx, cy - ly>>,
     <<cx + ly, cy + lx>>, <<cx - ly, cy + lx>>,
     <<cx + ly, cy - lx>>, <<cx - ly, cy - lx>> >>

\* drawCircle's red, green, blue for the local x, y.
DrawColour(lx, ly) == <<CMod(lx, 255), CMod(ly, 255), 255 - CMod(lx, 255)>>

RECURSIVE PutAll(_, _, _, _, _)
\* The buffer after putPixel at pts[k], pts[k+1], ..., each storing value.
PutAll(buf, width, pts, k, value) ==
  IF k > Len(pts) THEN buf
  ELSE PutAll(putPixel(buf, width, pts[k][1], pts[k][2], value),
              width, pts, k + 1, value)

\* drawCircle(bitmap, xc, yc, x, y), and then control at `next` with `done`
\* iterations of the loop finished.  Once a store has gone outside the pixel
\* buffer the process may die or go on.
drawCircle(next, done) ==
  LET pts == EightPoints(xc, yc, x, y)
      rgb == DrawColour(x, y)
      outside == \E k \in 1..8 :
                   GET_PIXEL_INDEX(pts[k][1], pts[k][2], header.width)
                     \notin DOMAIN cells
  IN  /\ colour' = rgb
      /\ cells' = PutAll(cells, header.width, pts, 1,
                         PIXCOLOR(rgb[1], rgb[2], rgb[3]))
      /\ lastPut' = PutAll(lastPut, header.width, pts, 1, rgb)
      /\ callWrites' = callWrites \cup {pts[k] : k \in 1..8}
      /\ callOob' = (callOob \/ \E k \in 1..8 : ~InCanvas(pts[k][1], pts[k][2]))
      /\ everOob' = (everOob \/ \E k \in 1..8 : ~InCanvas(pts[k][1], pts[k][2]))
      /\ passes' = passes + 1
      /\ ub' = (ub \/ outside)
      /\ \E dies \in (IF outside THEN BOOLEAN ELSE {FALSE}) :
           pc' = IF dies THEN "crashed" ELSE next
      /\ iters' = done
      /\ UNCHANGED <<header, bitmap, radiusStart, prgmStatus, status, bresVars,
                     encVars, circles>>

\* A faulty variant: the loop goes on only while y > x.
BresContinueStrict(lx, ly) == ly > lx
\* circleBres's loop condition.
BresContinue(lx, ly) == ly >= lx

\* A faulty variant: y starts one beyond the radius.
BresInitYOff(radius) == radius + 1
\* circleBres's initial y.
BresInitY(radius) == radius

\* circleBres(bitmap, cx, cy, radius) entered from the "main_loop" line.
circleBresEnter(cx, cy, radius) ==
  /\ xc' = cx /\ yc' = cy /\ r' = radius
  /\ x' = 0
  /\ y' = BresInitY(radius)
  /\ d' = 3 - 2 * radius
  /\ callWrites' = {}
  /\ callOob' = FALSE
  /\ iters' = 0
  /\ passes' = 0
  /\ circles' = circles + 1
  /\ pc' = "bres_while"

\* while (y >= x): the first drawCircle of the body.
BresEmit1 ==
  /\ pc = "bres_while"
  /\ BresContinue(x, y)
  /\ drawCircle("bres_update", iters)

\* x++ and the decision parameter.
BresUpdate ==
  /\ pc = "bres_update"
  /\ x' = x + 1
  /\ IF d > 0
     THEN /\ y' = y - 1
          /\ d' = d + 4 * ((x + 1) - (y - 1)) + 10
     ELSE /\ y' = y
          /\ d' = d + 4 * (x + 1) + 6
  /\ pc' = "bres_emit2"
  /\ UNCHANGED <<header, cells, bitmap, radiusStart, prgmStatus, status, xc, yc,
                 r, colour, encVars, lastPut, callHist, circles, ub,
                 everOob>>

\* The second drawCircle of the body, with the updated x and y.
BresEmit2 ==
  /\ pc = "bres_emit2"
  /\ drawCircle("bres_while", iters + 1)

\* The loop condition fails: circleBres returns.
BresReturn ==
  /\ pc = "bres_while"
  /\ ~BresContinue(x, y)
  /\ pc' = "main_loop"
  /\ UNCHANGED <<header, cells, bitmap, radiusStart, prgmStatus, status,
                 bresVars, colour, encVars, lastPut, callHist, circles, ub,
                 everOob>>

\* ----------------------------------------------------------------- encoder

\* A faulty variant: the three bytes stored in the order blue, green, red.
PackPixelSwapped(buf, col, currentPixel) ==
  [buf EXCEPT ![3 * col + 1] = ByteOf(currentPixel, 2),
              ![3 * col + 2] = ByteOf(currentPixel, 1),
              ![3 * col + 3] = ByteOf(currentPixel, 0)]
\* lineBuffer[lineStart], [lineStart + 1], [lineStart + 2] = pixelAsBytes[0..2]
\* for lineStart = 3 * col (lineBuffer[k] of C is buf[k + 1] here).
PackPixel(buf, col, currentPixel) ==
  [buf EXCEPT ![3 * col + 1] = ByteOf(currentPixel, 0),
              ![3 * col + 2] = ByteOf(currentPixel, 1),
              ![3 * col + 3] = ByteOf(currentPixel, 2)]

RECURSIVE PackRow(_, _, _)
\* The inner loop of writeBitmapData for scanline py, from column col on.
PackRow(buf, py, col) ==
  IF col >= header.width THEN buf
  ELSE PackRow(PackPixel(buf, col,
                         cells[GET_PIXEL_INDEX(col, py, header.width)]),
               py, col + 1)

\* fwrite(bytes) on the sink: it takes all of them, or it fails and takes
\* none; a sink that has failed keeps failing.  The result is not looked at.
fwrite(bytes) ==
  /\ asked' = asked + Len(bytes)
  /\ \E ok \in (IF sinkBad THEN {FALSE} ELSE BOOLEAN) :
       IF ok
       THEN out' = out \o bytes /\ UNCHANGED sinkBad
       ELSE sinkBad' = TRUE /\ UNCHANGED out

\* saveBitmap: fopen(filename, "w").
SaveOpen ==
  /\ pc = "save_open"
  /\ \E opened \in BOOLEAN :
       IF opened
       THEN /\ file' = "open"
            /\ out' = <<>>
            /\ pc' = "write_header"
            /\ UNCHANGED prgmStatus
       ELSE /\ prgmStatus' = -1
            /\ pc' = "main_free"
            /\ UNCHANGED <<file, out>>
  /\ UNCHANGED <<header, cells, bitmap, radiusStart, status, bresVars, colour,
                 lineBuffer, row, sinkBad, asked, lastPut, callHist, circles, ub,
                 everOob>>

\* writeBitmapData up to its loop: the header is filled in and written, and
\* the row buffer is declared, holding whatever the stack held.
WriteHeader ==
  /\ pc = "write_header"
  /\ LET bytesPerRow == BMP_BYTES_PER_LINE(header.width, BITCOUNT)
         imageFullSize == bytesPerRow * header.height
         filled == [header EXCEPT
                      !.bfType = <<66, 77>>,
                      !.headerSize = 40,
                      !.imageOffset = SizeofHeader,
                      !.planes = 1,
                      !.bitCount = BITCOUNT,
                      !.reserved = 0,
                      !.colorsImportant = 0,
                      !.colorsUsed = 0,
                      !.imageSize = imageFullSize,
                      !.fileSize = imageFullSize + SizeofHeader,
                      !.xPixelsPerMeter = 0,
                      !.yPixelsPerMeter = 0]
     IN /\ header' = filled
        /\ fwrite(HeaderBytes(filled))
        /\ \E g \in GarbageBytes : lineBuffer' = [i \in 1..bytesPerRow |-> g]
  /\ row' = header.height - 1
  /\ pc' = "write_rows"
  /\ UNCHANGED <<cells, bitmap, radiusStart, prgmStatus, status, bresVars,
                 colour, file, lastPut, callHist, circles, ub,
                 everOob>>

\* One pass of the outer loop: scanline `row` is packed and written.
WriteRow ==
  /\ pc = "write_rows"
  /\ row >= 0
  /\ LET packed == PackRow(lineBuffer, row, 0)
     IN /\ lineBuffer' = packed
        /\ fwrite(packed)
  /\ row' = row - 1
  /\ UNCHANGED <<pc, header, cells, bitmap, radiusStart, prgmStatus, status,
                 bresVars, colour, file, lastPut, callHist, circles, ub,
                 everOob>>

\* The outer loop ends: writeBitmapData returns 0.
WriteReturn ==
  /\ pc = "write_rows"
  /\ row < 0
  /\ pc' = "save_close"
  /\ UNCHANGED <<header, cells, bitmap, radiusStart, prgmStatus, status,
                 bresVars, colour, encVars, lastPut, callHist, circles, ub,
                 everOob>>

\* saveBitmap: fclose(output) and return 0, whatever writeBitmapData did.
SaveClose ==
  /\ pc = "save_close"
  /\ file' = "closed"
  /\ prgmStatus' = 0
  /\ pc' = "main_free"
  /\ UNCHANGED <<header, cells, bitmap, radiusStart, status, bresVars, colour,
                 lineBuffer, row, out, sinkBad, asked, lastPut, callHist, circles, ub,
                 everOob>>

\* ------------------------------------------------------------------ driver

\* freeBitmap(myPicture)
freeBitmap ==
  /\ bitmap' = "freed"
  /\ cells' = <<>>
  /\ lastPut' = <<>>

\* main: newBitmap(imgWidth, imgHeight), then radiusStart.
MainNew ==
  \E w \in Dims, h \in Dims :
    newBitmap(w, h, IF h > w THEN CDiv(h, 2) ELSE CDiv(w, 2))

\* main: while (--radiusStart > 0) circleBres(myPicture, imgWidth/2,
\* imgHeight/2, radiusStart); and after the loop, saveBitmap.
MainWhile ==
  /\ pc = "main_loop"
  /\ radiusStart' = radiusStart - 1
  /\ IF radiusStart - 1 > 0
     THEN circleBresEnter(CDiv(header.width, 2), CDiv(header.height, 2),
                          radiusStart - 1)
     ELSE /\ pc' = "save_open"
          /\ UNCHANGED <<bresVars, callHist, circles>>
  /\ UNCHANGED <<header, cells, bitmap, prgmStatus, status, colour, encVars,
                 lastPut, ub,
                 everOob>>

\* main: freeBitmap(myPicture); return prgmStatus.
MainFree ==
  /\ pc = "main_free"
  /\ freeBitmap
  /\ status' = prgmStatus
  /\ pc' = "exit"
  /\ UNCHANGED <<header, radiusStart, prgmStatus, bresVars, colour, encVars,
                 callHist, circles, ub,
                 everOob>>

Next ==
  \/ MainNew
  \/ MainWhile
  \/ BresEmit1
  \/ BresUpdate
  \/ BresEmit2
  \/ BresReturn
  \/ SaveOpen
  \/ WriteHeader
  \/ WriteRow
  \/ WriteReturn
  \/ SaveClose
  \/ MainFree

\* The program: main, for every image size up to MaxDim.
Spec == Init /\ [][Next]_vars

\* --------------------------------------------- a caller of the canvas API

\* A canvas of any size, for a caller that draws circles of its own choice.
ApiNew == \E w \in Dims, h \in Dims : newBitmap(w, h, MaxRadius + 1)

\* circleBres with any centre on the canvas and any radius; as main does, the
\* caller draws its circles at one centre, each smaller than the last.
ApiCircle ==
  /\ pc = "main_loop"
  /\ circles < MaxCircles
  /\ \E cx \in 0..(header.width - 1), cy \in 0..(header.height - 1),
        radius \in Radii :
       /\ radius < radiusStart
       /\ circles > 0 => (cx = xc /\ cy = yc)
       /\ radiusStart' = radius
       /\ circleBresEnter(cx, cy, radius)
  /\ UNCHANGED <<header, cells, bitmap, prgmStatus, status, colour, encVars,
                 lastPut, ub,
                 everOob>>

\* The caller releases the canvas and stops.
ApiFree ==
  /\ pc = "main_loop"
  /\ freeBitmap
  /\ status' = 0
  /\ pc' = "exit"
  /\ UNCHANGED <<header, radiusStart, prgmStatus, bresVars, colour, encVars,
                 callHist, circles, ub,
                 everOob>>

NextApi ==
  \/ ApiNew
  \/ ApiCircle
  \/ BresEmit1
  \/ BresUpdate
  \/ BresEmit2
  \/ BresReturn
  \/ ApiFree

\* The rasterizer under any caller: canvases up to MaxDim, radii up to
\* MaxRadius, up to MaxCircles circles.
SpecApi == Init /\ [][NextApi]_vars

\* ------------------------------------------- drawCircle's colour, by itself

\* drawCircle entered with local coordinates x <= y up to MaxLocal.
InitColour ==
  /\ pc = "colour_in"
  /\ header = ZeroHeader
  /\ cells = <<>>
  /\ bitmap = "none"
  /\ radiusStart = 0
  /\ prgmStatus = 0
  /\ status = "running"
  /\ xc = 0 /\ yc = 0 /\ r = 0
  /\ x \in 0..MaxLocal
  /\ y \in x..MaxLocal
  /\ d = 0
  /\ colour = <<0, 0, 0>>
  /\ lineBuffer = <<>>
  /\ row = 0
  /\ file = "closed"
  /\ out = <<>>
  /\ sinkBad = FALSE
  /\ asked = 0
  /\ lastPut = <<>>
  /\ callWrites = {}
  /\ callOob = FALSE
  /\ iters = 0
  /\ passes = 0
  /\ circles = 0
  /\ ub = FALSE
  /\ everOob = FALSE

\* The first three statements of drawCircle.
ColourApply ==
  /\ pc = "colour_in"
  /\ colour' = DrawColour(x, y)
  /\ pc' = "colour_out"
  /\ UNCHANGED <<header, cells, bitmap, radiusStart, prgmStatus, status,
                 bresVars, encVars, lastPut, callHist, circles, ub,
                 everOob>>

NextColour == ColourApply

SpecColour == InitColour /\ [][NextColour]_vars

\* ------------------------------------------------------------- properties

\* The least k with den * k >= num, for num >= 0 and den > 0.
CeilDiv(num, den) == CHOOSE k \in 0..num : den * k >= num /\ den * (k - 1) < num
\* The row stride as section 3 of the specification states it.
StrideOf(w) == CeilDiv(w * 24, 32) * 4
Min(a, b) == IF a < b THEN a ELSE b
\* The 32 bit little-endian number at bytes off .. off+3 of the sink (off
\* counted from 0).
OutField(off) ==
  out[off + 1] + 256 * out[off + 2] + 65536 * out[off + 3]
  + 16777216 * out[off + 4]
\* writeBitmapData has returned on a canvas of positive width and height.
Encoded == pc = "save_close" /\ header.width > 0 /\ header.height > 0

\* C1: for a canvas of positive width and height, writeBitmapData emits
\* 54 + stride * height bytes, stride = ceil(width * 24 / 32) * 4 being a
\* multiple of 4 that is at least 3 * width (16 for width 5); the header has
\* imageOffset 54, imageSize stride * height and fileSize imageSize + 54, and
\* fileSize is the number of bytes emitted (and, on a sink that took every
\* write, the length of the file, where the same three fields are read back).
C1_FileSize ==
  Encoded =>
    LET stride == StrideOf(header.width)
    IN /\ stride % 4 = 0
       /\ stride >= 3 * header.width
       /\ (header.width = 5 => stride = 16)
       /\ header.imageOffset = 54
       /\ header.imageSize = stride * header.height
       /\ header.fileSize = header.imageSize + 54
       /\ asked = 54 + stride * header.height
       /\ asked = header.fileSize
       /\ ~sinkBad =>
            /\ Len(out) = header.fileSize
            /\ OutField(2) = header.fileSize
            /\ OutField(10) = 54
            /\ OutField(34) = stride * header.height

\* C1's case: a width that is no multiple of 4, several rows, all written.
C1_Witness ==
  Encoded /\ ~sinkBad /\ header.width = 5 /\ header.height = 3

\* The scanlines the sink has taken so far, when it took every write.
RowsWritten == header.height - 1 - row
\* Byte `at` (from 0) of the k-th scanline (from 0) the sink took.
RowByte(k, at) == out[54 + k * StrideOf(header.width) + at + 1]
Encoding ==
  /\ pc \in {"write_rows", "save_close"}
  /\ header.width > 0 /\ header.height > 0
  /\ ~sinkBad

\* C2: in every scanline emitted, the bytes from 3 * width to stride - 1 are
\* zero.
C2_PaddingZero ==
  Encoding =>
    \A k \in 0..(RowsWritten - 1) :
      \A at \in (3 * header.width)..(StrideOf(header.width) - 1) :
        RowByte(k, at) = 0

\* C3: the colour drawCircle computes for the local x, y is x mod 256,
\* y mod 256, 255 - (x mod 256).
C3_ColourMod256 ==
  pc = "colour_out" => colour = <<x % 256, y % 256, 255 - (x % 256)>>

\* A circleBres call with centre (5,5) and radius 0 has been entered.
RadiusZeroAt55 == circles >= 1 /\ xc = 5 /\ yc = 5 /\ r = 0
Returned == pc = "main_loop"
Diagonals55 == {<<4, 4>>, <<4, 6>>, <<6, 4>>, <<6, 6>>}

\* C4, as stated: circleBres(5, 5, 0) makes one pass, and every putPixel of it
\* is at (5,5), on the canvas.
C4_OnlyCentre ==
  RadiusZeroAt55 =>
    /\ callWrites \subseteq {<<5, 5>>}
    /\ passes <= 1
    /\ ~callOob

\* C4, amended: circleBres(5, 5, 0) runs its loop body exactly once, which is
\* two drawCircle passes: the first stores at (5,5) only, the second (local
\* x = 1, y = -1) at the four diagonal neighbours of (5,5); on a canvas of at
\* least 7 by 7 no store is off the canvas, and no other cell is changed.
C4_CentreAndDiagonals ==
  RadiusZeroAt55 =>
    /\ iters <= 1
    /\ passes <= 2
    /\ passes = 1 => callWrites = {<<5, 5>>}
    /\ passes = 2 => callWrites = {<<5, 5>>} \cup Diagonals55
    /\ Returned => iters = 1 /\ passes = 2
    /\ (header.width >= 7 /\ header.height >= 7) =>
         /\ ~callOob
         /\ circles = 1 => (~ub /\ pc # "crashed")
         /\ (circles = 1 /\ bitmap = "live") =>
              \A px \in 0..(header.width - 1), py \in 0..(header.height - 1) :
                cells[px + py * header.width] # 0
                  => <<px, py>> \in {<<5, 5>>} \cup Diagonals55

\* C4's case: the call has returned on a canvas that holds all five cells.
C4_Witness ==
  /\ RadiusZeroAt55 /\ Returned /\ circles = 1
  /\ header.width >= 7 /\ header.height >= 7
  /\ \A p \in Diagonals55 : cells[p[1] + p[2] * header.width] # 0

\* A call with the canvas midpoint as centre and radius min(width,height)/2.
MidpointCall ==
  /\ circles >= 1
  /\ header.width > 0 /\ header.height > 0
  /\ xc = header.width \div 2
  /\ yc = header.height \div 2
  /\ r = Min(header.width, header.height) \div 2
OddAtLeast3(n) == n % 2 = 1 /\ n >= 3

\* C5, as stated: such a call gives putPixel only coordinates on the canvas.
C5_MidpointInBounds == MidpointCall => ~callOob

\* C5, amended: such a call gives putPixel only coordinates on the canvas
\* when min(width,height) is odd and at least 3, and otherwise does not.
C5_MidpointInBoundsOdd ==
  MidpointCall =>
    /\ OddAtLeast3(Min(header.width, header.height)) => ~callOob
    /\ (Returned /\ ~callOob) => OddAtLeast3(Min(header.width, header.height))

\* C5's case: the call has returned from a radius of at least 2 with every
\* store on the canvas, on a canvas that is not square.
C5_Witness ==
  /\ MidpointCall /\ Returned /\ ~callOob
  /\ r >= 2 /\ passes >= 2
  /\ header.width # header.height

\* C6: a canvas comes back from newBitmap only for a positive width and
\* height, and then every cell is zero.
C6_RejectsNonPositive ==
  bitmap = "live" =>
    /\ header.width > 0 /\ header.height > 0
    /\ circles = 0 => \A i \in DOMAIN cells : cells[i] = 0

\* C7: when main has exited, the sink is closed, and the status is 0 only if
\* the sink was opened and took the header and every scanline.
C7_FailureReported ==
  pc = "exit" =>
    /\ file = "closed"
    /\ (status = 0 /\ header.width > 0 /\ header.height > 0) =>
         /\ ~sinkBad
         /\ Len(out) = 54 + StrideOf(header.width) * header.height

\* C8: the k-th scanline emitted is canvas row height-1-k, and its bytes 3x,
\* 3x+1, 3x+2 are the channels putPixel was last given for the cell at index
\* x + y * width (0, 0, 0 for a cell never written).
C8_RowsBottomUp ==
  Encoding =>
    \A k \in 0..(RowsWritten - 1) :
      \A px \in 0..(header.width - 1) :
        LET given == lastPut[px + (header.height - 1 - k) * header.width]
        IN  (\A j \in 1..3 : given[j] \in 0..255) =>
              \A j \in 1..3 : RowByte(k, 3 * px + j - 1) = given[j]

\* C8's case: a canvas with a circle on it and a padded stride, written whole;
\* some pixel of it has three different channels.
C8_Witness ==
  /\ Encoded /\ ~sinkBad /\ ~ub
  /\ header.width = 5 /\ header.height = 5
  /\ \E i \in DOMAIN lastPut : /\ lastPut[i][1] # lastPut[i][2]
                               /\ lastPut[i][2] # lastPut[i][3]
                               /\ lastPut[i][1] # lastPut[i][3]

\* The images of the offset (a, b) under the 8 symmetries about the centre.
Orbit(a, b) ==
  { <<xc + a, yc + b>>, <<xc - a, yc + b>>, <<xc + a, yc - b>>,
    <<xc - a, yc - b>>, <<xc + b, yc + a>>, <<xc - b, yc + a>>,
    <<xc + b, yc - a>>, <<xc - b, yc - a>> }
OnCanvas(p) == InCanvas(p[1], p[2])
CellAt(p) == cells[p[1] + p[2] * header.width]
\* drawCircle has just run for the local x, y.
JustDrawn ==
  \/ pc = "bres_update"
  \/ pc = "bres_while" /\ passes > 0

\* C9: while every store is on the canvas, a drawCircle pass leaves one value
\* in all 8 cells (cx +- dx, cy +- dy), (cx +- dy, cy +- dx), the one made of
\* the channels it computed; and the canvas, black at first and drawn on at
\* one centre only, is the same under the 8 symmetries about that centre.
C9_EightfoldSymmetry ==
  (bitmap = "live" /\ circles >= 1 /\ ~everOob) =>
    /\ JustDrawn =>
         \A p \in Orbit(x, y) :
           /\ OnCanvas(p)
           /\ lastPut[p[1] + p[2] * header.width] = colour
           /\ \A q \in Orbit(x, y) : CellAt(p) = CellAt(q)
    /\ \A a \in 0..MaxDim, b \in 0..MaxDim :
         \A p \in Orbit(a, b), q \in Orbit(a, b) :
           (OnCanvas(p) /\ OnCanvas(q)) => CellAt(p) = CellAt(q)

\* C9's case: two circles of radii at least 1 drawn at one centre, every
\* store on the canvas.
C9_Witness ==
  /\ bitmap = "live" /\ circles = 2 /\ ~everOob /\ Returned
  /\ r >= 1
  /\ CellAt(<<xc + r, yc>>) # 0

\* A circleBres call is running or has returned (or died).
InCall == circles >= 1
\* C10, the states: the loop body is not entered for r < 0 and at most r + 1
\* times for r >= 0; x counts the iterations and y has dropped by at most one
\* in each; after the return y < x; for r >= 1 the local x and y are never
\* negative and every channel computed is in 0..255.
C10_States ==
  InCall =>
    /\ r < 0 => (iters = 0 /\ passes = 0)
    /\ r >= 0 => iters <= r + 1
    /\ pc \in {"bres_while", "main_loop"} => x = iters
    /\ y >= r - x
    /\ Returned => y < x
    /\ r >= 1 =>
         /\ x >= 0 /\ y >= 0
         /\ \A j \in 1..3 : colour[j] \in 0..255
\* C10, the steps: the body runs only from y >= x, adds exactly 1 to x and
\* takes at most 1 from y, and the first loop test with y < x leaves the loop.
C10_Steps ==
  /\ (pc = "bres_while" /\ pc' = "bres_update") => y >= x
  /\ (pc = "bres_while" /\ y < x) => pc' = "main_loop"
  /\ pc = "bres_update" => (x' = x + 1 /\ y' \in {y - 1, y})
  /\ pc \in {"bres_while", "bres_emit2"} => (x' = x /\ y' = y)

\* C10: circleBres's loop terminates for every radius: its iterations are
\* bounded by r + 1 (none for r < 0), x grows by exactly 1 and y falls by at
\* most 1 in each, it leaves at the first test with y < x, and for r >= 1 the
\* local coordinates stay non-negative, the channels in 0..255.
C10_LoopBounded == [](C10_States) /\ [][C10_Steps]_vars

\* C10's case: a call of radius 3 has gone round its loop more than once and
\* returned.
C10_Witness == InCall /\ Returned /\ r = 3 /\ iters >= 2

====
